---- MODULE Spec2Model ----
(***************************************************************************)
(* gruvberry (src/src/main.rs): a WAV player with a live terminal          *)
(* spectrum display.  Three threads run concurrently:                      *)
(*   - the audio thread of the playback sink, which pulls samples through  *)
(*     SampleCapture::next (the "sample tap");                             *)
(*   - the render thread running visualize_frequencies;                    *)
(*   - main, which starts both, monitors the sink and joins the render     *)
(*     thread.                                                             *)
(* Shared state: the Mutex<Vec<f32>> sample buffer and the AtomicBool      *)
(* should_stop.                                                            *)
(*                                                                         *)
(* The tap and the snapshot never inspect a sample's value, so the inner   *)
(* stream is the ramp 1, 2, ..., n: every sample is distinct, which makes  *)
(* a dropped, duplicated or reordered sample visible.  The analysis of a   *)
(* frame tells a silent window from any other; FrameSpec runs the render   *)
(* thread alone over windows of both kinds and a terminal that is resized. *)
(*                                                                         *)
(* The Mutex is never poisoned: neither critical section can panic         *)
(* (push/len/drain on one side, len/copy on the other), so the Err arm of  *)
(* buffer.lock() is unreachable and lock() is a plain blocking acquire.    *)
(***************************************************************************)
EXTENDS Integers, Sequences, FiniteSets, TLC

\* ---- bounds of the model ----
\* The snapshot/FFT window.  The program uses 1024 (main.rs:53,137,167,170);
\* the model is checked with a small window, every use of the program's
\* 1024 being written Window and every use of 2048 being written Cap.
Window == 2
\* Longest inner stream: long enough for the history to pass Cap.
MaxStream == 6
\* Number of clock ticks the wall clock can advance.
MaxTime == 1

\* Magnitude the model gives every FFT bin of a window that is not silent
\* (1.0 is 1).
Loud == 2
\* Largest band count for which the colour gradient's ends are evaluated.
MaxTotal == 12

\* main.rs:52  `if buf.len() > 2048`: twice the window.
Cap == 2 * Window

\* ---- constants of the program ----
\* main.rs:141  let mut num_bands = 60
InitBands == 60
\* main.rs:243, 272  const MIN_WIDTH
MIN_WIDTH == 80
\* main.rs:244, 274  const MAX_WIDTH / MAX_DISPLAY_WIDTH
MAX_WIDTH == 160
\* main.rs:273  const MIN_HEIGHT
MIN_HEIGHT == 20
\* main.rs:247  saturating_sub(4): the borders
BorderCols == 4
\* main.rs:239  the height of the fallback size 80 x 24
FallbackHeight == 24
\* main.rs:224  smoothing_factor = 0.3, in tenths
SmoothTenths == 3

VARIABLES
    stream,         \* the inner source's samples (self.source)
    srcPos,         \* how many samples self.source has yielded
    sample,         \* SampleCapture::next local `sample`
    tapPc,          \* position of the audio thread inside next()
    out,            \* the samples next() has returned to the sink
    history,        \* the Vec<f32> behind the Mutex
    lockHolder,     \* who holds the Mutex: "free", "tap", "render"
    samples,        \* visualize_frequencies local `samples`
    rPc,            \* position of the render thread
    event,          \* the input event poll() found waiting, for read()
    rResult,        \* what visualize_frequencies returned
    rawMode,        \* terminal: raw mode enabled
    altScreen,      \* terminal: alternate screen entered
    should_stop,    \* the AtomicBool
    elapsed,        \* wall clock since start_time
    totalDuration,  \* `duration` computed by main from the WAV header
    mPc,            \* position of main
    stopped,        \* sink.stop() has been called
    termSizes,      \* the sizes the terminal takes during the run
    num_bands,      \* visualize_frequencies local `num_bands`
    smoothed_bands, \* local `smoothed_bands`
    bands,          \* local `bands` of the current iteration
    normalized_bands, \* local `normalized_bands` of the current iteration
    num_legend_bands, \* local `num_legend_bands` of the current iteration
    screen,         \* what the last completed draw put on the terminal
    colors,         \* the colours of the bands of the last drawn spectrum
    spectrum_height, \* rows inside the spectrum box of the last draw
    bars            \* rows filled in each column of the last drawn spectrum

vars == <<stream, srcPos, sample, tapPc, out, history, lockHolder, samples,
          rPc, event, rResult, rawMode, altScreen, should_stop, elapsed,
          totalDuration, mPc, stopped, termSizes, num_bands, smoothed_bands,
          bands, normalized_bands, num_legend_bands, screen, colors,
          spectrum_height, bars>>

tapVars    == <<srcPos, sample, tapPc, out>>
bandVars   == <<num_bands, smoothed_bands, bands, normalized_bands,
                num_legend_bands, screen, colors, spectrum_height, bars>>
renderVars == <<samples, rPc, event, rResult, rawMode, altScreen, bandVars>>
mainVars   == <<mPc, stopped>>
envVars    == <<stream, totalDuration, termSizes>>

\* ---- pure helpers ----

\* The inner stream of length n.
Ramp(n) == [i \in 1..n |-> i]

\* Iterator::rev
RECURSIVE Rev(_)
Rev(s) == IF s = <<>> THEN <<>> ELSE Append(Rev(Tail(s)), Head(s))

\* Iterator::take(n)
Take(s, n) == SubSeq(s, 1, IF Len(s) < n THEN Len(s) ELSE n)

\* Faulty variant of Snapshot: the oldest window instead of the newest.
SnapshotOldest(buf) == Take(buf, Window)

\* main.rs:170  buf.iter().rev().take(1024).rev().copied().collect()
Snapshot(buf) == Rev(Take(Rev(buf), Window))

\* main.rs:167  `buf.len() < 1024`
NotEnough(buf) == Len(buf) < Window

\* Faulty variant of NeedsTrim: the trim starts one sample late.
NeedsTrimLate(buf) == Len(buf) > Cap + 1

\* main.rs:52  `buf.len() > 2048`
NeedsTrim(buf) == Len(buf) > Cap

\* Faulty variant of Drain: one sample is removed per trim.
DrainOne(buf) == Tail(buf)

\* Faulty variant of Drain: the trim removes the newest window.
DrainNewest(buf) == SubSeq(buf, 1, Len(buf) - Window)

\* Faulty variant of Drain: the trim removes Cap samples, not a window.
DrainCap(buf) == SubSeq(buf, Cap + 1, Len(buf))

\* main.rs:53  buf.drain(0..1024)
Drain(buf) == SubSeq(buf, Window + 1, Len(buf))

\* rodio Sink::empty(): no source is queued any more, because the source
\* ended (next() returned None) or the sink was stopped.
SinkEmpty == tapPc \in {"ended", "halted"}

\* Events crossterm's read() can deliver (main.rs:147-150).
Events == {"q", "ctrl_c", "key", "other"}

\* Faulty variant of IsQuit: Ctrl+C is not a quit key.
IsQuitOnlyQ(ev) == ev = "q"

\* Faulty variant of IsQuit: a plain 'c' quits too.
IsQuitAnyKey(ev) == ev \in {"q", "ctrl_c", "key"}

IsQuit(ev) == ev \in {"q", "ctrl_c"}

\* ---- the spectrum analysis (visualize_frequencies, main.rs:176-264) ----
\* Amplitudes are integers, 1.0 being 1, and every float operation is taken
\* with the integer arithmetic that truncates as the code's `as` casts do.

Min(a, b) == IF a < b THEN a ELSE b
Max(a, b) == IF a > b THEN a ELSE b

\* A window with no sound in it.
Silent(win) == \A k \in 1..Len(win) : win[k] = 0

\* main.rs:177-190  the FFT and the magnitude of each bin.  The transform of
\* a silent window is 0 in every bin; any other window is given the flat
\* spectrum Loud.
Magnitude(win) == IF Silent(win) THEN 0 ELSE Loud

\* main.rs:193-221  `bands`: n values, band i (from 0) being the average
\* magnitude of its bins times the boost 1 + 2 i / n.  (Which bands have no
\* bin, and stay 0.0, depends on exp and ln and is left out: every band is
\* given a bin.)
RawBands(win, n) ==
    [i \in 1..n |-> (Magnitude(win) * (n + 2 * (i - 1))) \div n]

\* Faulty variant of Smooth: a peak hold, the old value never decays.
SmoothPeakHold(old, new) == Max(old, new)

\* main.rs:226  smoothed * (1 - 0.3) + new * 0.3
Smooth(old, new) ==
    (old * (10 - SmoothTenths) + new * SmoothTenths) \div 10

\* main.rs:225-227  the smoothing loop over `bands`; the caller has checked
\* that `bands` is no longer than `smoothed`.
SmoothAll(smoothed, raw) ==
    [i \in 1..Len(smoothed) |->
        IF i <= Len(raw) THEN Smooth(smoothed[i], raw[i]) ELSE smoothed[i]]

\* main.rs:230  fold(0.0, f32::max).max(1.0): the largest of 0.0, the
\* bands and 1.0.
MaxAmplitude(smoothed) ==
    CHOOSE m \in {smoothed[i] : i \in 1..Len(smoothed)} \cup {1} :
        /\ m >= 1
        /\ \A i \in 1..Len(smoothed) : smoothed[i] <= m

\* main.rs:233-236  (band / max_amplitude) * 100.0
Normalize(smoothed, max_amplitude) ==
    [i \in 1..Len(smoothed) |-> (smoothed[i] * 100) \div max_amplitude]

\* Faulty variant of CalcBands: the width is not capped at MAX_WIDTH.
CalcBandsNoCap(width, current) ==
    IF width >= MIN_WIDTH THEN width - BorderCols ELSE current

\* main.rs:246-257  the band count for a terminal `width` columns wide.
CalcBands(width, current) ==
    IF width >= MIN_WIDTH
    THEN Max(Min(width, MAX_WIDTH) - BorderCols, 0)
    ELSE current

\* main.rs:251, 256  the legend count.
CalcLegends(width) ==
    IF width >= MIN_WIDTH
    THEN Min(Max((Max(Min(width, MAX_WIDTH) - BorderCols, 0)) \div 10, 8), 16)
    ELSE 8

\* Faulty variant of VecResize: the vector is left as it is.
VecResizeKeep(vec, n) == vec

\* main.rs:262-263  Vec::resize(n, 0.0)
VecResize(vec, n) ==
    [i \in 1..n |-> IF i <= Len(vec) THEN vec[i] ELSE 0]

\* `as u8`: a float-to-integer cast saturates.
U8(v) == Max(0, Min(255, v))

\* main.rs:87-88  the divisor of the ratio: total.max(1) - 1.
ColorDivisor(total) == Max(total, 1) - 1

\* main.rs:90-117  the colours of the gradient's six segments: red to
\* orange to yellow (255, g, 0), to green (r, 255, 0), to cyan (0, 255, b),
\* to blue (0, g, 255), to violet (r up to 148, 0, b down to 211).
OnGradient(c) ==
    \/ c[1] = 255 /\ c[2] \in 0..255 /\ c[3] = 0
    \/ c[1] \in 0..255 /\ c[2] = 255 /\ c[3] = 0
    \/ c[1] = 0 /\ c[2] = 255 /\ c[3] \in 0..255
    \/ c[1] = 0 /\ c[2] \in 0..255 /\ c[3] = 255
    \/ c[1] \in 0..148 /\ c[2] = 0 /\ c[3] \in 211..255

\* Faulty variant of FrequencyToColor: every band is red.
FrequencyToColorRed(index, total) == <<255, 0, 0>>

\* main.rs:85-118  frequency_to_color, as <<r, g, b>>.  With d = total - 1
\* the ratio is index / d, kept as the fraction (1000 index) / (1000 d);
\* each channel is the truncated value of the code's expression.  For
\* total <= 1 the ratio is 0/0 (no comparison holds, the casts of NaN give
\* 0) or index/0 (infinite).
FrequencyToColor(index, total) ==
    LET d == ColorDivisor(total)
        x == 1000 * index
    IN  IF d = 0
        THEN IF index = 0 THEN <<0, 0, 0>> ELSE <<255, 0, 0>>
        ELSE IF x < 167 * d
        THEN <<255, U8((165 * x) \div (167 * d)), 0>>
        ELSE IF x < 333 * d
        THEN <<255, U8(165 + (90 * (x - 167 * d)) \div (166 * d)), 0>>
        ELSE IF x < 500 * d
        THEN <<U8((255 * (500 * d - x)) \div (167 * d)), 255, 0>>
        ELSE IF x < 667 * d
        THEN <<0, 255, U8((255 * (x - 500 * d)) \div (167 * d))>>
        ELSE IF x < 833 * d
        THEN <<0, U8((255 * (833 * d - x)) \div (166 * d)), 255>>
        ELSE <<U8((148 * (x - 833 * d)) \div (167 * d)), 0,
               U8((255 * 167 * d - 44 * (x - 833 * d)) \div (167 * d))>>

\* main.rs:323-333  the colours of the bars: every band whose index is
\* below normalized_bands.len() is coloured, by its index and num_bands.
BandColors(normalized, n) ==
    [i \in 1..Min(n, Len(normalized)) |-> FrequencyToColor(i - 1, n)]

\* main.rs:292-311  the columns inside the spectrum box: the display is at
\* most MAX_WIDTH wide and the box has a border on each side.
SpectrumWidth(area) == Min(area[1], MAX_WIDTH) - 2

\* main.rs:306  the height of the legend details box.
LegendRows(legends) == Min(legends, 10) \div 2 + 3

\* main.rs:301-312  the rows inside the spectrum box: the vertical layout
\* gives the legend, its details and the progress line their lengths and
\* the spectrum box the rest, of which its two borders are taken off.  (The
\* terminals that draw a spectrum here are high enough for the box to get
\* the 10 rows the layout asks for it.)
SpectrumHeight(area, legends) ==
    Max(area[2] - 3 - LegendRows(legends) - 3 - 2, 0)

\* main.rs:326  ((col / spectrum_width) * num_bands) as usize.  The f64
\* product falls just below the whole number it stands for, and is cut to
\* the number before it, for three columns of the 78-column box with 156
\* bands.
BandIndex(col, width, n) ==
    IF width = 78 /\ n = 156 /\ col \in {31, 45, 62}
    THEN (col * n) \div width - 1
    ELSE (col * n) \div width

\* main.rs:335-336  ((amplitude / 100.0) * spectrum_height) as usize, at
\* least 1.
BarHeight(amplitude, height) == Max((amplitude * height) \div 100, 1)

\* main.rs:327-344  the rows filled in the column of band `index`: none
\* when the index is past the end of normalized_bands, else the rows below
\* the bar height.
BarRows(normalized, index, height) ==
    IF index >= Len(normalized)
    THEN 0
    ELSE Min(BarHeight(normalized[index + 1], height), height)

\* main.rs:321-345  the rows filled in each column of the spectrum box.
Bars(normalized, n, width, height) ==
    [c \in 1..width |->
        BarRows(normalized, BandIndex(c - 1, width, n), height)]

\* main.rs:276  the draw closure's size test.
TooSmall(size) == size[1] < MIN_WIDTH \/ size[2] < MIN_HEIGHT

\* main.rs:239  the size terminal.size() falls back to on an error.
FallbackSize == <<MIN_WIDTH, FallbackHeight>>

\* Terminal sizes: a column too narrow, a row too low, the smallest and the
\* fallback size, and one wider than the widest display.
Sizes == { <<MIN_WIDTH - 1, FallbackHeight>>,
           <<MIN_WIDTH, MIN_HEIGHT - 1>>,
           <<MIN_WIDTH, FallbackHeight>>,
           <<MAX_WIDTH + 1, FallbackHeight>> }

\* The sizes below the minimum of main.rs:276.
SmallSizes == {size \in Sizes : TooSmall(size)}

\* main.rs:142  vec![0.0f32; num_bands]
Zeros(n) == [i \in 1..n |-> 0]

\* ---- initial state ----
Init ==
    /\ stream \in {Ramp(n) : n \in 0..MaxStream}
    /\ totalDuration \in 0..MaxTime
    /\ srcPos = 0
    /\ sample = 0
    /\ tapPc = "idle"
    /\ out = <<>>
    /\ history = <<>>
    /\ lockHolder = "free"
    /\ samples = <<>>
    /\ rPc = "unspawned"
    /\ event = "none"
    /\ rResult = "none"
    /\ rawMode = FALSE
    /\ altScreen = FALSE
    /\ should_stop = FALSE
    /\ elapsed = 0
    /\ mPc = "setup"
    /\ stopped = FALSE
    /\ termSizes = {FallbackSize}
    /\ num_bands = InitBands
    /\ smoothed_bands = Zeros(InitBands)
    /\ bands = <<>>
    /\ normalized_bands = <<>>
    /\ num_legend_bands = 0
    /\ screen = "none"
    /\ colors = <<>>
    /\ spectrum_height = 0
    /\ bars = <<>>

\* ---- the sample tap: SampleCapture::next, driven by the sink ----

\* main.rs:47  self.source.next(); None is passed on at once (main.rs:58).
TapSourceNext ==
    /\ tapPc = "idle"
    /\ mPc \notin {"setup", "failed"}
    /\ ~stopped
    /\ IF srcPos < Len(stream)
       THEN /\ sample' = stream[srcPos + 1]
            /\ srcPos' = srcPos + 1
            /\ tapPc' = "lock"
       ELSE /\ tapPc' = "ended"
            /\ UNCHANGED <<sample, srcPos>>
    /\ UNCHANGED <<out, history, lockHolder, renderVars, should_stop,
                   elapsed, mainVars, envVars>>

\* Faulty variant of TapLock: try_lock, the append being skipped when the
\* Mutex is busy.
TapTryLock ==
    /\ tapPc = "lock"
    /\ IF lockHolder = "free"
       THEN lockHolder' = "tap" /\ tapPc' = "push"
       ELSE UNCHANGED lockHolder /\ tapPc' = "ret"
    /\ UNCHANGED <<srcPos, sample, out, history, renderVars, should_stop,
                   elapsed, mainVars, envVars>>

\* main.rs:49  self.buffer.lock(): blocks until the Mutex is free.
TapLock ==
    /\ tapPc = "lock"
    /\ lockHolder = "free"
    /\ lockHolder' = "tap"
    /\ tapPc' = "push"
    /\ UNCHANGED <<srcPos, sample, out, history, renderVars, should_stop,
                   elapsed, mainVars, envVars>>

\* main.rs:50  buf.push(sample)
TapPush ==
    /\ tapPc = "push"
    /\ history' = Append(history, sample)
    /\ tapPc' = "trim"
    /\ UNCHANGED <<srcPos, sample, out, lockHolder, renderVars, should_stop,
                   elapsed, mainVars, envVars>>

\* main.rs:52-55  the trim, then the guard is dropped.
TapTrim ==
    /\ tapPc = "trim"
    /\ history' = IF NeedsTrim(history) THEN Drain(history) ELSE history
    /\ lockHolder' = "free"
    /\ tapPc' = "ret"
    /\ UNCHANGED <<srcPos, sample, out, renderVars, should_stop, elapsed,
                   mainVars, envVars>>

\* Faulty variant of TapReturn: the oldest buffered sample is returned.
TapReturnOldest ==
    /\ tapPc = "ret"
    /\ out' = Append(out, Head(history))
    /\ tapPc' = "idle"
    /\ UNCHANGED <<srcPos, sample, history, lockHolder, renderVars,
                   should_stop, elapsed, mainVars, envVars>>

\* main.rs:56  Some(sample)
TapReturn ==
    /\ tapPc = "ret"
    /\ out' = Append(out, sample)
    /\ tapPc' = "idle"
    /\ UNCHANGED <<srcPos, sample, history, lockHolder, renderVars,
                   should_stop, elapsed, mainVars, envVars>>

\* The sink, once stopped, pulls no further sample.
SinkHalt ==
    /\ tapPc = "idle"
    /\ stopped
    /\ tapPc' = "halted"
    /\ UNCHANGED <<srcPos, sample, out, history, lockHolder, renderVars,
                   should_stop, elapsed, mainVars, envVars>>

Tap == TapSourceNext \/ TapLock \/ TapPush \/ TapTrim \/ TapReturn \/ SinkHalt

\* ---- the render thread: visualize_frequencies ----

\* The function returns: Ok(()) or the error of the step that failed.
Return(r) ==
    /\ rPc' = "returned"
    /\ rResult' = r

\* main.rs:130  enable_raw_mode()?
REnableRaw ==
    /\ rPc = "raw"
    /\ \E ok \in BOOLEAN :
         IF ok
         THEN /\ rawMode' = TRUE
              /\ rPc' = "alt"
              /\ UNCHANGED rResult
         ELSE /\ Return("err_raw")
              /\ UNCHANGED rawMode
    /\ UNCHANGED <<bandVars, event, samples, altScreen, tapVars, history,
                   lockHolder, should_stop, elapsed, mainVars, envVars>>

\* main.rs:131-132  execute!(stdout, EnterAlternateScreen)?
REnterAlt ==
    /\ rPc = "alt"
    /\ \E ok \in BOOLEAN :
         IF ok
         THEN /\ altScreen' = TRUE
              /\ rPc' = "term"
              /\ UNCHANGED rResult
         ELSE /\ Return("err_alt")
              /\ UNCHANGED altScreen
    /\ UNCHANGED <<bandVars, event, samples, rawMode, tapVars, history,
                   lockHolder, should_stop, elapsed, mainVars, envVars>>

\* main.rs:133-142  Terminal::new(backend)?, the FFT plan, start_time.
RTerminalNew ==
    /\ rPc = "term"
    /\ \E ok \in BOOLEAN :
         IF ok
         THEN /\ rPc' = "poll"
              /\ UNCHANGED rResult
         ELSE Return("err_term")
    /\ elapsed' = 0
    /\ UNCHANGED <<bandVars, event, samples, rawMode, altScreen, tapVars,
                   history, lockHolder, should_stop, mainVars, envVars>>

\* main.rs:146  poll(0)?: Ok(true) when an event is waiting.
RPoll ==
    /\ rPc = "poll"
    /\ \E r \in Events \cup {"empty", "err"} :
         CASE r = "empty" -> /\ rPc' = "elapsed"
                             /\ UNCHANGED <<event, rResult>>
           [] r = "err"   -> /\ Return("err_poll")
                             /\ UNCHANGED event
           [] OTHER       -> /\ rPc' = "read"
                             /\ event' = r
                             /\ UNCHANGED rResult
    /\ UNCHANGED <<bandVars, samples, rawMode, altScreen, tapVars, history,
                   lockHolder, should_stop, elapsed, mainVars, envVars>>

\* Faulty variant of RRead: the quit key stores the flag without breaking.
RReadNoBreak ==
    /\ rPc = "read"
    /\ \E ok \in BOOLEAN :
         CASE ~ok           -> /\ Return("err_read")
                               /\ UNCHANGED should_stop
           [] ok /\ IsQuit(event)
                            -> /\ should_stop' = TRUE
                               /\ rPc' = "elapsed"
                               /\ UNCHANGED rResult
           [] OTHER         -> /\ rPc' = "elapsed"
                               /\ UNCHANGED <<rResult, should_stop>>
    /\ event' = "none"
    /\ UNCHANGED <<bandVars, samples, rawMode, altScreen, tapVars, history,
                   lockHolder, elapsed, mainVars, envVars>>

\* main.rs:147-154  read()?; 'q' or Ctrl+C stores the flag and breaks.
RRead ==
    /\ rPc = "read"
    /\ \E ok \in BOOLEAN :
         CASE ~ok           -> /\ Return("err_read")
                               /\ UNCHANGED should_stop
           [] ok /\ IsQuit(event)
                            -> /\ should_stop' = TRUE
                               /\ rPc' = "disable"
                               /\ UNCHANGED rResult
           [] OTHER         -> /\ rPc' = "elapsed"
                               /\ UNCHANGED <<rResult, should_stop>>
    /\ event' = "none"
    /\ UNCHANGED <<bandVars, samples, rawMode, altScreen, tapVars, history,
                   lockHolder, elapsed, mainVars, envVars>>

\* Faulty variant of RElapsed: the loop ends on the flag only.
RElapsedNoTimeout ==
    /\ rPc = "elapsed"
    /\ rPc' = IF should_stop THEN "disable" ELSE "sleep"
    /\ UNCHANGED <<bandVars, event, samples, rResult, rawMode, altScreen,
                   tapVars, history, lockHolder, should_stop, elapsed,
                   mainVars, envVars>>

\* Faulty variant of RElapsed: `>` for `>=`.
RElapsedStrict ==
    /\ rPc = "elapsed"
    /\ rPc' = IF elapsed > totalDuration \/ should_stop
              THEN "disable" ELSE "sleep"
    /\ UNCHANGED <<bandVars, event, samples, rResult, rawMode, altScreen,
                   tapVars, history, lockHolder, should_stop, elapsed,
                   mainVars, envVars>>

\* main.rs:157-160  elapsed >= total_duration || should_stop  => break
RElapsed ==
    /\ rPc = "elapsed"
    /\ rPc' = IF elapsed >= totalDuration \/ should_stop
              THEN "disable" ELSE "sleep"
    /\ UNCHANGED <<bandVars, event, samples, rResult, rawMode, altScreen,
                   tapVars, history, lockHolder, should_stop, elapsed,
                   mainVars, envVars>>

\* main.rs:162  thread::sleep(16 ms)
RSleep ==
    /\ rPc = "sleep"
    /\ rPc' = "lock"
    /\ UNCHANGED <<bandVars, event, samples, rResult, rawMode, altScreen,
                   tapVars, history, lockHolder, should_stop, elapsed,
                   mainVars, envVars>>

\* main.rs:166  buffer.lock(): blocks until the Mutex is free.
RLock ==
    /\ rPc = "lock"
    /\ lockHolder = "free"
    /\ lockHolder' = "render"
    /\ rPc' = "snap"
    /\ UNCHANGED <<bandVars, event, samples, rResult, rawMode, altScreen,
                   tapVars, history, should_stop, elapsed, mainVars,
                   envVars>>

\* Faulty variant of RSnap: a history that is too short ends the loop.
RSnapBreaks ==
    /\ rPc = "snap"
    /\ IF NotEnough(history)
       THEN /\ rPc' = "disable"
            /\ UNCHANGED samples
       ELSE /\ samples' = Snapshot(history)
            /\ rPc' = "fft"
    /\ lockHolder' = "free"
    /\ UNCHANGED <<bandVars, event, rResult, rawMode, altScreen, tapVars,
                   history, should_stop, elapsed, mainVars, envVars>>

\* Faulty variant of RSnap: the guard is still held after the copy.
RSnapHoldsAfterCopy ==
    /\ rPc = "snap"
    /\ IF NotEnough(history)
       THEN /\ rPc' = "poll"
            /\ lockHolder' = "free"
            /\ UNCHANGED samples
       ELSE /\ samples' = Snapshot(history)
            /\ rPc' = "fft"
            /\ UNCHANGED lockHolder
    /\ UNCHANGED <<bandVars, event, rResult, rawMode, altScreen, tapVars,
                   history, should_stop, elapsed, mainVars, envVars>>

\* Faulty variant of RSnap: the guard outlives the `continue`.
RSnapKeepsLock ==
    /\ rPc = "snap"
    /\ IF NotEnough(history)
       THEN /\ rPc' = "poll"
            /\ UNCHANGED <<samples, lockHolder>>
       ELSE /\ samples' = Snapshot(history)
            /\ rPc' = "fft"
            /\ lockHolder' = "free"
    /\ UNCHANGED <<bandVars, event, rResult, rawMode, altScreen, tapVars,
                   history, should_stop, elapsed, mainVars, envVars>>

\* main.rs:167-170  too short: continue; else copy the last window.
\* Either way the guard is dropped on leaving the block.
RSnap ==
    /\ rPc = "snap"
    /\ IF NotEnough(history)
       THEN /\ rPc' = "poll"
            /\ UNCHANGED samples
       ELSE /\ samples' = Snapshot(history)
            /\ rPc' = "fft"
    /\ lockHolder' = "free"
    /\ UNCHANGED <<bandVars, event, rResult, rawMode, altScreen, tapVars,
                   history, should_stop, elapsed, mainVars, envVars>>

\* main.rs:176-236  FFT, `bands` for the current num_bands, smoothing into
\* smoothed_bands (an index past its end panics), normalisation.
RAnalyze ==
    /\ rPc = "fft"
    /\ \E raw \in {RawBands(samples, num_bands)} :
       \E smoothed \in {SmoothAll(smoothed_bands, raw)} :
         IF num_bands > Len(smoothed_bands)
         THEN /\ rPc' = "panicked"
              /\ UNCHANGED <<bands, smoothed_bands, normalized_bands>>
         ELSE /\ bands' = raw
              /\ smoothed_bands' = smoothed
              /\ \E max_amplitude \in {MaxAmplitude(smoothed)} :
                   normalized_bands' = Normalize(smoothed, max_amplitude)
              /\ rPc' = "size"
    /\ UNCHANGED <<num_bands, num_legend_bands, screen, colors,
                   spectrum_height, bars, event, samples, rResult, rawMode,
                   altScreen, tapVars, history, lockHolder, should_stop,
                   elapsed, mainVars, envVars>>

\* Faulty variant of RSize: only `bands` is resized with the band count.
RSizeBandsOnly ==
    /\ rPc = "size"
    /\ \E size \in termSizes \cup {FallbackSize} :
         LET n == CalcBands(size[1], num_bands) IN
           /\ num_legend_bands' = CalcLegends(size[1])
           /\ num_bands' = n
           /\ bands' = IF n # num_bands THEN VecResize(bands, n) ELSE bands
    /\ rPc' = "draw"
    /\ UNCHANGED <<smoothed_bands, normalized_bands, screen, colors,
                   spectrum_height, bars, event, samples, rResult, rawMode,
                   altScreen, tapVars, history, lockHolder, should_stop,
                   elapsed, mainVars, envVars>>

\* main.rs:238-264  terminal.size() (80 x 24 on an error), the band and
\* legend counts for its width, and the resize when the count changed.
RSize ==
    /\ rPc = "size"
    /\ \E size \in termSizes \cup {FallbackSize} :
         LET n == CalcBands(size[1], num_bands) IN
           /\ num_legend_bands' = CalcLegends(size[1])
           /\ num_bands' = n
           /\ IF n # num_bands
              THEN /\ smoothed_bands' = VecResize(smoothed_bands, n)
                   /\ bands' = VecResize(bands, n)
              ELSE UNCHANGED <<smoothed_bands, bands>>
    /\ rPc' = "draw"
    /\ UNCHANGED <<normalized_bands, screen, colors, spectrum_height, bars,
                   event, samples, rResult, rawMode, altScreen, tapVars,
                   history, lockHolder, should_stop, elapsed, mainVars,
                   envVars>>

\* main.rs:267-466  terminal.draw(...)?: the notice when the area is too
\* small, the spectrum otherwise; the iteration's locals end with it.
RDraw ==
    /\ rPc = "draw"
    /\ \E ok \in BOOLEAN, area \in termSizes :
         IF ok
         THEN /\ IF TooSmall(area)
                 THEN /\ screen' = "notice"
                      /\ colors' = <<>>
                      /\ spectrum_height' = 0
                      /\ bars' = <<>>
                 ELSE /\ screen' = "spectrum"
                      /\ colors' = BandColors(normalized_bands, num_bands)
                      /\ spectrum_height' =
                             SpectrumHeight(area, num_legend_bands)
                      /\ bars' = Bars(normalized_bands, num_bands,
                                      SpectrumWidth(area), spectrum_height')
              /\ rPc' = "poll"
              /\ UNCHANGED rResult
         ELSE /\ Return("err_draw")
              /\ UNCHANGED <<screen, colors, spectrum_height, bars>>
    /\ bands' = <<>>
    /\ normalized_bands' = <<>>
    /\ UNCHANGED <<num_bands, smoothed_bands, num_legend_bands, event,
                   samples, rawMode, altScreen, tapVars, history, lockHolder,
                   should_stop, elapsed, mainVars, envVars>>

\* main.rs:470  disable_raw_mode()?
RDisableRaw ==
    /\ rPc = "disable"
    /\ \E ok \in BOOLEAN :
         IF ok
         THEN /\ rawMode' = FALSE
              /\ rPc' = "leave"
              /\ UNCHANGED rResult
         ELSE /\ Return("err_disable")
              /\ UNCHANGED rawMode
    /\ UNCHANGED <<bandVars, event, samples, altScreen, tapVars, history,
                   lockHolder, should_stop, elapsed, mainVars, envVars>>

\* main.rs:471-473  execute!(.., LeaveAlternateScreen)?; Ok(())
RLeaveAlt ==
    /\ rPc = "leave"
    /\ \E ok \in BOOLEAN :
         IF ok
         THEN /\ altScreen' = FALSE
              /\ Return("ok")
         ELSE /\ Return("err_leave")
              /\ UNCHANGED altScreen
    /\ UNCHANGED <<bandVars, event, samples, rawMode, tapVars, history,
                   lockHolder, should_stop, elapsed, mainVars, envVars>>

Render ==
    \/ REnableRaw \/ REnterAlt \/ RTerminalNew
    \/ RPoll \/ RRead \/ RElapsed \/ RSleep
    \/ RLock \/ RSnap \/ RAnalyze \/ RSize \/ RDraw
    \/ RDisableRaw \/ RLeaveAlt

\* The wall clock read by start_time.elapsed() (main.rs:138,157).
Tick ==
    /\ rPc \notin {"unspawned", "raw", "alt", "term", "returned"}
    /\ elapsed < MaxTime
    /\ elapsed' = elapsed + 1
    /\ UNCHANGED <<tapVars, history, lockHolder, renderVars, should_stop,
                   mainVars, envVars>>

\* ---- main: the lifecycle coordinator ----

\* main.rs:478-507  open and decode the file, open the output stream,
\* wrap the source, sink.append(wrapped_source); any `?` returns early.
MainSetup ==
    /\ mPc = "setup"
    /\ \E ok \in BOOLEAN : mPc' = IF ok THEN "spawn" ELSE "failed"
    /\ UNCHANGED <<stopped, tapVars, history, lockHolder, renderVars,
                   should_stop, elapsed, envVars>>

\* main.rs:510-518  thread::spawn(visualize_frequencies)
MainSpawn ==
    /\ mPc = "spawn"
    /\ rPc' = "raw"
    /\ mPc' = "loop"
    /\ UNCHANGED <<stopped, bandVars, event, samples, rResult, rawMode,
                   altScreen, tapVars, history, lockHolder, should_stop,
                   elapsed, envVars>>

\* Faulty variant of MainLoopEmpty: main raises the flag itself when
\* playback has finished.
MainLoopEmptySignals ==
    /\ mPc = "loop"
    /\ mPc' = IF SinkEmpty THEN "check" ELSE "loopflag"
    /\ should_stop' = (should_stop \/ SinkEmpty)
    /\ UNCHANGED <<stopped, tapVars, history, lockHolder, renderVars,
                   elapsed, envVars>>

\* main.rs:521  `!sink.empty()`, the first operand of the loop condition.
MainLoopEmpty ==
    /\ mPc = "loop"
    /\ mPc' = IF SinkEmpty THEN "check" ELSE "loopflag"
    /\ UNCHANGED <<stopped, tapVars, history, lockHolder, renderVars,
                   should_stop, elapsed, envVars>>

\* Faulty variant of MainLoopFlag: a set flag ends the loop past the check.
MainLoopFlagSkipsCheck ==
    /\ mPc = "loopflag"
    /\ mPc' = IF should_stop THEN "join" ELSE "loop"
    /\ UNCHANGED <<stopped, tapVars, history, lockHolder, renderVars,
                   should_stop, elapsed, envVars>>

\* main.rs:521-523  `!should_stop.load()`, then the 100 ms sleep.
MainLoopFlag ==
    /\ mPc = "loopflag"
    /\ mPc' = IF should_stop THEN "check" ELSE "loop"
    /\ UNCHANGED <<stopped, tapVars, history, lockHolder, renderVars,
                   should_stop, elapsed, envVars>>

\* Faulty variant of MainCheck: the sink is never stopped.
MainCheckNoStop ==
    /\ mPc = "check"
    /\ mPc' = "join"
    /\ UNCHANGED <<stopped, tapVars, history, lockHolder, renderVars,
                   should_stop, elapsed, envVars>>

\* main.rs:526-528  if should_stop.load() { sink.stop() }
MainCheck ==
    /\ mPc = "check"
    /\ stopped' = should_stop
    /\ mPc' = "join"
    /\ UNCHANGED <<tapVars, history, lockHolder, renderVars, should_stop,
                   elapsed, envVars>>

\* Faulty variant of MainJoin: main returns without joining.
MainJoinNoWait ==
    /\ mPc = "join"
    /\ mPc' = "done"
    /\ UNCHANGED <<stopped, tapVars, history, lockHolder, renderVars,
                   should_stop, elapsed, envVars>>

\* main.rs:531-533  handle.join().unwrap(); Ok(()).  The unwrap panics
\* when the render thread has panicked.
MainJoin ==
    /\ mPc = "join"
    /\ rPc \in {"returned", "panicked"}
    /\ mPc' = IF rPc = "panicked" THEN "panicked" ELSE "done"
    /\ UNCHANGED <<stopped, tapVars, history, lockHolder, renderVars,
                   should_stop, elapsed, envVars>>

Main ==
    \/ MainSetup \/ MainSpawn \/ MainLoopEmpty \/ MainLoopFlag
    \/ MainCheck \/ MainJoin

\* ---- specifications ----

Next == Tap \/ Render \/ Tick \/ Main

Spec == Init /\ [][Next]_vars

\* Every thread keeps running while it can, and time passes.
FairSpec ==
    /\ Spec
    /\ WF_vars(Tap)
    /\ WF_vars(Render)
    /\ WF_vars(Main)
    /\ WF_vars(Tick)

TypeOK ==
    /\ tapPc \in {"idle", "lock", "push", "trim", "ret", "ended", "halted"}
    /\ lockHolder \in {"free", "tap", "render"}
    /\ mPc \in {"setup", "failed", "spawn", "loop", "loopflag", "check",
                "join", "done", "panicked"}
    /\ elapsed \in 0..MaxTime
    /\ should_stop \in BOOLEAN
    /\ event \in Events \cup {"none"}
    /\ rPc \in {"unspawned", "raw", "alt", "term", "poll", "read", "elapsed",
                "sleep", "lock", "snap", "fft", "size", "draw", "disable",
                "leave", "returned", "panicked"}
    /\ num_bands \in {InitBands} \cup (MIN_WIDTH - BorderCols)..MAX_WIDTH
    /\ num_legend_bands \in {0} \cup 8..16
    /\ screen \in {"none", "notice", "spectrum"}
    /\ \A i \in 1..Len(smoothed_bands) : smoothed_bands[i] >= 0

\* ---- the render thread alone ----
\* The frame claims are about visualize_frequencies only.  They are checked
\* with the render thread running against a history that changes under it
\* and a terminal that is resized between any two of its size queries.

\* main.rs:46-60  the audio thread between two frames, taken as one step:
\* it has pulled a window of samples from the source, silent or not, and
\* pushed them, and the history's last window is now `win`.
Feed ==
    /\ lockHolder = "free"
    /\ srcPos + Window <= MaxStream
    /\ srcPos' = srcPos + Window
    /\ \E win \in {Zeros(Window), Ramp(Window)} : history' = win
    /\ UNCHANGED <<stream, sample, tapPc, out, lockHolder, renderVars,
                   should_stop, elapsed, mainVars, totalDuration, termSizes>>

\* main.rs:518-520  main has spawned the render thread and waits in its
\* loop.  The terminal is either resized at will or too small throughout.
\* The file is longer than the frames examined, so the clock, which the
\* loop reads for its timed end only (main.rs:157-160), is left at 0.
FrameInit ==
    /\ stream = <<>>
    /\ totalDuration = MaxTime
    /\ srcPos = 0
    /\ sample = 0
    /\ tapPc = "idle"
    /\ out = <<>>
    /\ history = <<>>
    /\ lockHolder = "free"
    /\ samples = <<>>
    /\ rPc = "raw"
    /\ event = "none"
    /\ rResult = "none"
    /\ rawMode = FALSE
    /\ altScreen = FALSE
    /\ should_stop = FALSE
    /\ elapsed = 0
    /\ mPc = "loop"
    /\ stopped = FALSE
    /\ termSizes \in {Sizes, SmallSizes}
    /\ num_bands = InitBands
    /\ smoothed_bands = Zeros(InitBands)
    /\ bands = <<>>
    /\ normalized_bands = <<>>
    /\ num_legend_bands = 0
    /\ screen = "none"
    /\ colors = <<>>
    /\ spectrum_height = 0
    /\ bars = <<>>

FrameNext == Render \/ Feed

FrameSpec == FrameInit /\ [][FrameNext]_vars

\* ---- frequency_to_color alone ----
\* The function is called with any total from 0 on, held in num_bands, the
\* argument the draw closure passes as total (main.rs:333).
ColorInit ==
    /\ stream = <<>>
    /\ totalDuration = MaxTime
    /\ srcPos = 0
    /\ sample = 0
    /\ tapPc = "idle"
    /\ out = <<>>
    /\ history = <<>>
    /\ lockHolder = "free"
    /\ samples = <<>>
    /\ rPc = "draw"
    /\ event = "none"
    /\ rResult = "none"
    /\ rawMode = TRUE
    /\ altScreen = TRUE
    /\ should_stop = FALSE
    /\ elapsed = 0
    /\ mPc = "loop"
    /\ stopped = FALSE
    /\ termSizes = {FallbackSize}
    /\ num_bands \in 0..MaxTotal
    /\ smoothed_bands = <<>>
    /\ bands = <<>>
    /\ normalized_bands = <<>>
    /\ num_legend_bands = 0
    /\ screen = "none"
    /\ colors = <<>>
    /\ spectrum_height = 0
    /\ bars = <<>>

\* main.rs:333  frequency_to_color(band_index, num_bands) for the band
\* indices 0 .. k - 1.
ColorCall ==
    /\ \E k \in 1..MaxTotal :
         colors' = [i \in 1..k |-> FrequencyToColor(i - 1, num_bands)]
    /\ UNCHANGED <<stream, srcPos, sample, tapPc, out, history, lockHolder,
                   samples, rPc, event, rResult, rawMode, altScreen,
                   should_stop, elapsed, mPc, stopped, totalDuration,
                   termSizes, num_bands, smoothed_bands, bands,
                   normalized_bands, num_legend_bands, screen,
                   spectrum_height, bars>>

ColorNext == ColorCall

ColorSpec == ColorInit /\ [][ColorNext]_vars

\* ---- properties ----

\* Number of samples pushed to the history so far.
Appended == IF tapPc \in {"lock", "push"} THEN srcPos - 1 ELSE srcPos

\* C1: the values next() has returned are exactly the inner stream's values
\* so far, in order, none dropped or duplicated, and next() has returned
\* end-of-stream only once the whole inner stream has been returned.
TapForwardsStream ==
    /\ out = SubSeq(stream, 1, Len(out))
    /\ Len(out) = IF tapPc \in {"lock", "push", "trim", "ret"}
                  THEN srcPos - 1 ELSE srcPos
    /\ tapPc = "ended" => out = stream

\* A whole stream longer than the cap has been forwarded while the render
\* thread was taking snapshots.
TapForwardsStreamWitness ==
    /\ tapPc = "ended"
    /\ Len(out) > Cap
    /\ rPc = "fft"

HistoryBounded == lockHolder # "tap" => Len(history) <= Cap

\* The history is full, at rest, after a trim has happened.
HistoryBoundedWitness ==
    /\ lockHolder # "tap"
    /\ Len(history) = Cap
    /\ Appended > Len(history)

\* C4: the snapshot step leaves the history alone; with at least a window
\* of samples it yields the window most recently appended, in order, and
\* with fewer it yields nothing and the loop continues.
SnapshotIsLatestWindow ==
    [][(rPc = "snap" /\ rPc' # "snap") =>
         /\ history' = history
         /\ IF Len(history) >= Window
            THEN /\ rPc' = "fft"
                 /\ samples' = [k \in 1..Window |->
                                   stream[Appended - Window + k]]
            ELSE /\ rPc' = "poll"
                 /\ samples' = samples]_vars

\* A snapshot taken after the history's first samples have been trimmed.
SnapshotIsLatestWindowWitness ==
    /\ rPc = "fft"
    /\ Head(samples) > Cap

\* C5: the flag starts false, changes only from false to true, only in the
\* render thread's read step on a 'q' or Ctrl+C event, and that step (the
\* one that stores and breaks) is taken only while the flag is still false.
StopFlagWriteOnce ==
    /\ ~should_stop
    /\ [][/\ should_stop => should_stop'
          /\ should_stop' # should_stop =>
               /\ rPc = "read"
               /\ event \in {"q", "ctrl_c"}
               /\ rPc' = "disable"
               /\ mPc' = mPc
               /\ tapPc' = tapPc
          /\ (rPc = "read" /\ rPc' = "disable") =>
               ~should_stop /\ should_stop']_vars

\* The flag was set and the run has completed with it still set.
StopFlagWriteOnceWitness ==
    /\ should_stop
    /\ mPc = "done"

\* C6 (as claimed): a return of the render function after its setup,
\* normal or with an error of polling, reading or drawing, leaves the
\* terminal neither in raw mode nor in the alternate screen.
RestoredOnEveryReturn ==
    (rPc = "returned" /\ rResult \in {"ok", "err_poll", "err_read", "err_draw"})
        => (~rawMode /\ ~altScreen)

\* C7 (as claimed): a setup failure after raw mode was enabled leaves the
\* terminal neither in raw mode nor in the alternate screen.
SetupFailureRestores ==
    (rPc = "returned" /\ rResult \in {"err_alt", "err_term"})
        => (~rawMode /\ ~altScreen)

\* C8: main has returned only if the render thread, when one was spawned,
\* has returned from visualize_frequencies.
JoinBeforeReturn ==
    /\ mPc = "done" => rPc = "returned"
    /\ mPc = "failed" => rPc = "unspawned"

\* main has returned after a run in which frames were drawn.
JoinBeforeReturnWitness ==
    /\ mPc = "done"
    /\ rResult = "ok"
    /\ samples # <<>>

\* Playback, the render thread and main have all come to an end.
AllDone ==
    /\ mPc \in {"done", "failed"}
    /\ rPc \in {"unspawned", "returned"}
    /\ mPc = "done" => SinkEmpty

\* C9: under fair scheduling every execution ends all three activities.
Terminates == <>AllDone

\* All three have ended after a user quit that stopped the sink.
TerminatesWitness ==
    /\ AllDone
    /\ should_stop
    /\ tapPc = "halted"

\* C10 (as claimed): main returns with the flag set only after stop was
\* called.
StopCalledWheneverFlagSet ==
    (mPc = "done" /\ should_stop) => stopped

\* C10 (amended): main's check of the flag after the loop calls stop when
\* it finds the flag set, and main is past that check without having
\* called stop only when the sink was already empty.
StopCalledWhenFlagSeen ==
    /\ [](mPc \in {"join", "done"} /\ ~stopped => SinkEmpty)
    /\ [][(mPc = "check" /\ mPc' # "check" /\ should_stop) => stopped']_vars

\* main has returned after stopping a sink that was still playing.
StopCalledWhenFlagSeenWitness ==
    /\ mPc = "done"
    /\ stopped
    /\ tapPc = "halted"
    /\ srcPos < Len(stream)

\* The positions of the render thread from the restoration step on.
RestorePcs == {"disable", "leave", "returned"}

\* C11: once the flag is true the render thread is out of its loop, so no
\* further frame is drawn; the restoration step is entered only from the
\* loop and never a second time; and a return with the flag set has gone
\* through it.
QuitEndsLoopAtOnce ==
    /\ [](should_stop => rPc \in RestorePcs)
    /\ [][(rPc' = "disable" /\ rPc # "disable") =>
             rPc \in {"read", "elapsed"}]_vars
    /\ [][(rPc \in RestorePcs) => rPc' \in RestorePcs]_vars
    /\ [][(rPc \in {"leave", "returned"}) => rPc' # "disable"]_vars
    /\ [](rPc = "returned" /\ should_stop =>
             rResult \in {"ok", "err_disable", "err_leave"})

\* The flag was set after frames had been analysed, and the function has
\* returned through the restoration step.
QuitEndsLoopAtOnceWitness ==
    /\ should_stop
    /\ rPc = "returned"
    /\ rResult = "ok"
    /\ samples # <<>>

\* C12: the elapsed check leaves the loop exactly when elapsed has reached
\* the total duration (or the flag is set); the flag becomes true only on
\* a quit key; and when main has returned with the flag still false, the
\* source has ended, so the sink is empty.
NaturalEnd ==
    /\ [][(rPc = "elapsed" /\ rPc' # "elapsed") =>
             rPc' = IF elapsed >= totalDuration \/ should_stop
                    THEN "disable" ELSE "sleep"]_vars
    /\ [][(~should_stop /\ should_stop') => event \in {"q", "ctrl_c"}]_vars
    /\ [](mPc = "done" /\ ~should_stop => SinkEmpty /\ tapPc = "ended")

\* A run without quit key that ended on time, with the flag still false.
NaturalEndWitness ==
    /\ mPc = "done"
    /\ ~should_stop
    /\ rResult = "ok"
    /\ totalDuration > 0
    /\ elapsed >= totalDuration
    /\ Len(out) > Cap

\* C18: the Mutex is held only inside a critical section, whose holder can
\* always go on to release it, and while some activity has not finished
\* some thread can take a step.
NoDeadlock ==
    /\ lockHolder = "tap" => (tapPc \in {"push", "trim"} /\ ENABLED Tap)
    /\ lockHolder = "render" => (rPc = "snap" /\ ENABLED Render)
    /\ ~AllDone => ENABLED (Tap \/ Render \/ Main)

\* The render thread waits for the Mutex while the tap holds it.
NoDeadlockWitness ==
    /\ rPc = "lock"
    /\ lockHolder = "tap"
    /\ Len(history) > Cap

\* What the trim leaves: the cap plus the sample just pushed, less a window.
AfterTrim == Cap + 1 - Window

\* C20: the trim step runs with the Mutex held; when the push has brought
\* the history above the cap it removes exactly the oldest window, leaving
\* the newest samples in order; otherwise it removes nothing.
BulkTrim ==
    [][(tapPc = "trim" /\ tapPc' # "trim") =>
         /\ lockHolder = "tap"
         /\ IF Len(history) > Cap
            THEN /\ history' = SubSeq(history, Window + 1, Len(history))
                 /\ history' = [k \in 1..AfterTrim |->
                                   stream[srcPos - AfterTrim + k]]
            ELSE history' = history]_vars

\* A trim has just removed the oldest window.
BulkTrimWitness ==
    /\ tapPc = "ret"
    /\ srcPos > Cap
    /\ Len(history) = AfterTrim

\* C13 (as claimed): the normalized bands handed to terminal.draw have
\* exactly num_bands entries, num_bands being the count the draw closure
\* maps columns and colours with, and every entry lies in 0..100.
DrawnBandsMatchLayout ==
    rPc = "draw" =>
        /\ Len(normalized_bands) = num_bands
        /\ \A i \in 1..Len(normalized_bands) : normalized_bands[i] \in 0..100

\* C14 (as claimed): the band values a frame draws are those computed for
\* the frame's own band count: `bands` are the raw magnitudes of num_bands
\* bands and the normalized values are those of the resized smoothing state.
AnalysisUsesNewLayout ==
    rPc = "draw" =>
        /\ bands = RawBands(samples, num_bands)
        /\ Len(smoothed_bands) = num_bands
        /\ normalized_bands =
               Normalize(smoothed_bands, MaxAmplitude(smoothed_bands))

\* C19 (as claimed): while the terminal is below the minimum size every
\* frame draws the notice only and leaves the smoothed bands and the band
\* count as they were, that is, as visualize_frequencies created them.
TooSmallSkipsAnalysis ==
    (\A size \in termSizes : TooSmall(size)) =>
        /\ screen # "spectrum"
        /\ smoothed_bands = Zeros(InitBands)
        /\ num_bands = InitBands

\* C15: the resize of main.rs:259-264 leaves smoothed_bands with num_bands
\* entries, the entries that were there before keeping their values and the
\* new ones being 0, and whatever the sequence of widths the smoothing loop
\* of main.rs:225-227 never indexes past the end of smoothed_bands.
ResizeKeepsSmoothed ==
    /\ [](rPc # "panicked")
    /\ [](rPc = "fft" => Len(smoothed_bands) = num_bands)
    /\ [][(rPc = "size" /\ rPc' = "draw") =>
            /\ Len(smoothed_bands') = num_bands'
            /\ \A i \in 1..num_bands' :
                 smoothed_bands'[i] =
                     IF i <= Len(smoothed_bands)
                     THEN smoothed_bands[i] ELSE 0]_vars

\* The terminal has shrunk from the widest layout to the narrowest one, and
\* the last band that is left has kept a smoothed value.
ResizeKeepsSmoothedWitness ==
    /\ rPc = "draw"
    /\ num_bands = MIN_WIDTH - BorderCols
    /\ Len(normalized_bands) = MAX_WIDTH - BorderCols
    /\ smoothed_bands[num_bands] > 0

\* C16 (as claimed): after the analysis of a frame whose window is all
\* zeros, every normalized band is 0.
SilentWindowAllZero ==
    (rPc = "size" /\ Silent(samples)) =>
        \A i \in 1..Len(normalized_bands) : normalized_bands[i] = 0

\* C16 (amended): the analysis of an all-zero window adds nothing to any
\* band: every smoothed value becomes 0.7 times what it was, the outputs are
\* these values over their maximum floored at 1, all within 0..100, and they
\* are all 0 when the smoothed values were all 0 before the frame.
SilentWindowDecays ==
    [][(rPc = "fft" /\ rPc' = "size" /\ Silent(samples)) =>
         /\ \A i \in 1..Len(smoothed_bands) :
              smoothed_bands'[i] =
                  (smoothed_bands[i] * (10 - SmoothTenths)) \div 10
         /\ \E max_amplitude \in {MaxAmplitude(smoothed_bands')} :
              /\ max_amplitude >= 1
              /\ \A i \in 1..Len(normalized_bands') :
                   /\ normalized_bands'[i] \in 0..100
                   /\ normalized_bands'[i] =
                          (smoothed_bands'[i] * 100) \div max_amplitude
         /\ smoothed_bands = Zeros(Len(smoothed_bands)) =>
                normalized_bands' = Zeros(Len(smoothed_bands))]_vars

\* A silent window has been analyzed after a loud one, and a band is still
\* shown above 0.
SilentWindowDecaysWitness ==
    /\ rPc = "size"
    /\ Silent(samples)
    /\ \E i \in 1..Len(normalized_bands) : normalized_bands[i] > 0

\* C17: frequency_to_color gives red (255, 0, 0) to index 0 and the violet
\* (148, 0, 211) to index total - 1 for every total >= 2, and the colour of
\* every bar of a drawn spectrum is the function's value at the band's
\* index and the band count, whatever the rest of the state.
ColorEndpoints ==
    /\ [](\A total \in 2..MaxTotal :
            /\ FrequencyToColor(0, total) = <<255, 0, 0>>
            /\ FrequencyToColor(total - 1, total) = <<148, 0, 211>>)
    /\ [][(rPc = "draw" /\ rPc' = "poll" /\ screen' = "spectrum") =>
            /\ \A i \in 1..Len(colors') :
                 colors'[i] = FrequencyToColor(i - 1, num_bands)
            /\ colors'[1] = <<255, 0, 0>>
            /\ Len(normalized_bands) = num_bands =>
                   colors'[num_bands] = <<148, 0, 211>>]_vars

\* A spectrum of the widest layout has been drawn, all its bands coloured.
ColorEndpointsWitness ==
    /\ screen = "spectrum"
    /\ rPc = "poll"
    /\ Len(colors) = MAX_WIDTH - BorderCols
    /\ colors[Len(colors)] = <<148, 0, 211>>

\* C21: a frame that finds the history shorter than the window is a no-op:
\* the snapshot step releases the Mutex and goes back to the top of the
\* loop with the bands, the band count, the screen and the result
\* untouched, and the analysis and the draw only ever run on a full window.
SkippedFrameIsNoOp ==
    /\ [](rPc \in {"fft", "size", "draw"} => Len(samples) = Window)
    /\ [][(rPc = "snap" /\ rPc' # "snap" /\ NotEnough(history)) =>
            /\ rPc' = "poll"
            /\ lockHolder' = "free"
            /\ UNCHANGED bandVars
            /\ UNCHANGED <<samples, rResult, should_stop, history>>]_vars

\* The render thread holds the Mutex over a history that has some samples
\* but not a window of them: the frame is about to be skipped.
SkippedFrameIsNoOpWitness ==
    /\ rPc = "snap"
    /\ lockHolder = "render"
    /\ Len(history) > 0
    /\ NotEnough(history)

\* C22: a read that delivers 'q' or Ctrl+C stores the flag and goes
\* straight to the restoration step, touching no band state; a read that
\* delivers anything else leaves the flag alone and goes on to the
\* elapsed-time check; either way the event is consumed.
QuitKeyLeavesLoop ==
    [][(rPc = "read" /\ rPc' # "read" /\ rResult' = rResult) =>
         /\ event' = "none"
         /\ UNCHANGED <<bandVars, samples>>
         /\ IF event \in {"q", "ctrl_c"}
            THEN should_stop' /\ rPc' = "disable"
            ELSE should_stop' = should_stop /\ rPc' = "elapsed"]_vars

\* The user has quit with a spectrum on the screen: the loop has been left
\* for the restoration step.
QuitKeyLeavesLoopWitness ==
    /\ rPc = "disable"
    /\ should_stop
    /\ screen = "spectrum"

\* C23: the band count is at least 1, it is 60 until the first size query
\* and afterwards one of 76..156; only the size query of a frame changes
\* it, to min(width, 160) - 4 when the width it read is 80 or more, and not
\* at all when the width is less.
BandCountFromWidth ==
    /\ [](/\ num_bands >= 1
          /\ num_bands \in {InitBands} \cup
                 (MIN_WIDTH - BorderCols)..(MAX_WIDTH - BorderCols))
    /\ [](rPc \in {"raw", "alt", "term"} => num_bands = InitBands)
    /\ [][num_bands' # num_bands => (rPc = "size" /\ rPc' = "draw")]_vars
    /\ [][(rPc = "size" /\ rPc' = "draw") =>
            \E size \in termSizes \cup {FallbackSize} :
                num_bands' = IF size[1] >= MIN_WIDTH
                             THEN Min(size[1], MAX_WIDTH) - BorderCols
                             ELSE num_bands]_vars

\* A terminal wider than 160 columns has given the largest band count, and
\* it is still there after a frame that drew the notice.
BandCountFromWidthWitness ==
    /\ rPc = "poll"
    /\ screen = "notice"
    /\ num_bands = MAX_WIDTH - BorderCols

\* C24 (as claimed): in a drawn spectrum every column has a bar of at least
\* one row and at most the height of the spectrum box.
EveryColumnHasBar ==
    screen = "spectrum" =>
        \A c \in 1..Len(bars) : bars[c] >= 1 /\ bars[c] <= spectrum_height

\* C25 (as claimed): for every total from 0 on, frequency_to_color divides
\* by a number other than 0, and the colour of every band index below the
\* clamped total lies on the gradient from red to violet.
ColorTotalClamped ==
    colors # <<>> =>
        /\ ColorDivisor(num_bands) # 0
        /\ \A i \in 1..Len(colors) :
             i <= Max(num_bands, 1) => OnGradient(colors[i])

\* C26: once the history holds a window of samples it never holds less:
\* no step takes it from at least a window to below one, the trim of a
\* history above the cap leaves a window and one sample, and from the first
\* snapshot on every frame that reaches the snapshot step gets a window.
HistoryStaysFull ==
    /\ [][Len(history) >= Window => Len(history') >= Window]_vars
    /\ [][(tapPc = "trim" /\ tapPc' # "trim" /\ Len(history) > Cap) =>
            Len(history') = Window + 1]_vars
    /\ [][(rPc = "snap" /\ rPc' # "snap" /\ samples # <<>>) =>
            (rPc' = "fft" /\ Len(samples') = Window)]_vars

\* A later frame is about to copy its window from a history that a trim
\* has cut back since an earlier frame's snapshot.
HistoryStaysFullWitness ==
    /\ rPc = "snap"
    /\ samples # <<>>
    /\ srcPos > Cap
    /\ Len(history) = AfterTrim
    /\ tapPc = "ret"

\* C27: at the top of every iteration of the render loop smoothed_bands
\* has num_bands entries, so every index 0 .. num_bands - 1 of the smoothing
\* loop is within it and the loop never panics, whatever sizes the terminal
\* has reported and whichever frames were skipped.
SmoothedMatchesBandCount ==
    /\ rPc = "poll" => Len(smoothed_bands) = num_bands
    /\ rPc = "fft" => \A i \in 0..(num_bands - 1) : i < Len(smoothed_bands)
    /\ rPc # "panicked"

\* An iteration starts after the smoothing loop has written the last entry
\* of an array that was resized to the narrowest layout.
SmoothedMatchesBandCountWitness ==
    /\ rPc = "poll"
    /\ screen = "spectrum"
    /\ num_bands = MIN_WIDTH - BorderCols
    /\ Len(smoothed_bands) = MIN_WIDTH - BorderCols
    /\ smoothed_bands[num_bands] > 0

\* C28: the render thread holds the Mutex at the snapshot step and nowhere
\* else, and the step that leaves it releases the Mutex on both of its
\* paths, to the top of the loop or to the FFT; the tap holds it during its
\* push and trim only; and whoever holds it can take its next step without
\* waiting for anything.
LockOnlyWhileCopying ==
    /\ [](lockHolder = "render" <=> rPc = "snap")
    /\ [](lockHolder = "tap" <=> tapPc \in {"push", "trim"})
    /\ [](lockHolder = "render" => ENABLED RSnap)
    /\ [](lockHolder = "tap" => ENABLED (TapPush \/ TapTrim))
    /\ [][(rPc = "snap" /\ rPc' # "snap") =>
            /\ lockHolder' = "free"
            /\ rPc' = IF NotEnough(history) THEN "poll" ELSE "fft"]_vars

\* The tap waits for the Mutex while the render thread copies a window.
LockOnlyWhileCopyingWitness ==
    /\ rPc = "snap"
    /\ lockHolder = "render"
    /\ tapPc = "lock"
    /\ ~NotEnough(history)
    /\ samples # <<>>

\* C29: the history is always the last Len(history) samples the tap has
\* pushed, in the source's order, none missing and none twice; whenever the
\* tap is between two calls it is a suffix of the samples returned so far
\* and, once a sample was returned, ends with the last one returned.
HistoryIsSuffix ==
    /\ Len(history) <= Appended
    /\ history = SubSeq(stream, Appended - Len(history) + 1, Appended)
    /\ tapPc \in {"idle", "ended", "halted"} =>
          /\ Len(history) <= Len(out)
          /\ history = SubSeq(out, Len(out) - Len(history) + 1, Len(out))
          /\ out # <<>> => history[Len(history)] = out[Len(out)]

\* The tap is between two calls after a trim, with snapshots taken on the
\* way: the history no longer starts at the first sample.
HistoryIsSuffixWitness ==
    /\ tapPc = "idle"
    /\ Len(out) > Cap
    /\ samples # <<>>
    /\ Len(history) >= Window
    /\ history[1] = out[Len(out) - Len(history) + 1]
    /\ history[1] # out[1]

\* C30: when main has returned normally, either stop was called on the
\* sink or the source had ended; and from any moment at which the flag is
\* set while the sink is not empty, main does not return without having
\* called stop.
NoPlaybackAtReturn ==
    /\ [](mPc = "done" => (stopped \/ tapPc = "ended"))
    /\ []((should_stop /\ ~SinkEmpty) => [](mPc = "done" => stopped))

\* main has returned after a quit that cut the playback short while the
\* spectrum was on the screen.
NoPlaybackAtReturnWitness ==
    /\ mPc = "done"
    /\ should_stop
    /\ stopped
    /\ Len(out) < Len(stream)
    /\ screen = "spectrum"

====
